---- MODULE Spec2Model ----
(***************************************************************************)
(* State-machine model of src/app.py: the liveness verifier (verify), the   *)
(* stateless analyze_emotion and get_challenge handlers, and the           *)
(* enrollment / matching pipeline (register, login) working on the         *)
(* file-backed face database DB_PATH from concurrently running request     *)
(* threads (app.run(threaded=True), no lock around the directory).         *)
(***************************************************************************)
EXTENDS Integers, Sequences, FiniteSets, TLC

\* ------------------------------------------------------------------ bounds
NumThreads == 2      \* request-handling threads of the threaded server
MaxRegs == 2         \* register requests accepted in one behaviour
NumFaces == 1        \* distinct persons appearing in the decodable images
MaxNameLen == 2      \* longest username sent by a client

Threads == 1..NumThreads

\* ------------------------------------------------------------------ inputs
\* Characters a client may put in a username: an alphanumeric one, a
\* full stop (the separator line 307 splits file names at) and a blank.
Chars == {"a", ".", " "}
AlnumChars == {"a"}
Whitespace == {" "}
Usernames == UNION {[1..k -> Chars] : k \in 0..MaxNameLen}

\* The image field of a request.  MissingImg: no 'image' key / empty string;
\* BadImg: a payload base64/imdecode cannot decode; 0: a decodable image in
\* which the detector finds no face; p in 1..NumFaces: a decodable image
\* showing person p.
MissingImg == 0 - 2
BadImg == 0 - 1
NoFaceImg == 0
Frames == 0..NumFaces
\* What a path of the store holds when there is no file at it.
NoFile == 0 - 3
ImageInputs == {MissingImg, BadImg} \cup Frames

\* The only cached index artifact DeepFace.find keeps for model VGG-Face.
PklFiles == {"representations_vgg_face.pkl"}

\* ------------------------------------------------------------- pure parts
RECURSIVE RStrip(_)
RStrip(s) ==
  IF s = <<>> THEN <<>>
  ELSE IF s[Len(s)] \in Whitespace THEN RStrip(SubSeq(s, 1, Len(s) - 1))
  ELSE s

\* Keep letting the full stop through.
KeepDot(c) == c \in AlnumChars \/ c \in {" ", "_", "."}

Keep(c) == c \in AlnumChars \/ c \in {" ", "_"}

\* Sanitize without the final rstrip().
SanitizeNoStrip(u) == SelectSeq(u, Keep)

\* safe_username = "".join(c for c in username if ...).rstrip()
Sanitize(u) == RStrip(SelectSeq(u, Keep))

\* filename = f"{safe_username}.jpg"
FileName(safe) == safe \o <<".", "jpg">>

\* img_data = b64decode(...); frame = imdecode(...); None -> ValueError
Decodable(img) == img \in Frames

\* rects = detector(gray, 0): the number of face regions found
Detector(frame) == IF frame = NoFaceImg THEN 0 ELSE 1

\* --------------------------------------------------------------- the state
VARIABLES
  images,   \* DB_PATH/*.jpg: file name -> frame stored in it
  cache,    \* DB_PATH/*.pkl: file name -> [idx, stamp], the pickled index
  clock,    \* history: number of reference images persisted so far
  acked,    \* history: clock value of the latest write whose register
            \*          has already answered success
  nregs,    \* register requests accepted so far (bounded by MaxRegs)
  th,       \* per request thread: the handler it runs, its locals and the
            \*          history of its call (log, wstamp, old, env, need)
  vf        \* the request being handled by a handler that does not use the
            \*          store (verify, analyze_emotion, get_challenge), its
            \*          inputs and its response

vars == <<images, cache, clock, acked, nregs, th, vf>>

EmptyDir == [f \in {} |-> 0]

\* Reason strings of the JSON responses; Http500 stands for an exception
\* that leaves the handler (Flask answers 500).
RegOk == "registered"
LoginOk == "recognized"
MissingData == "Missing image or username"
InvalidUsername == "Invalid username"
InvalidImage == "Invalid image format"
NoFaceReg == "No face detected for registration"
SaveFailed == "Failed to save user data."
MissingImage == "Missing image"
NotRecognized == "User not recognized"
MatchError == "An error occurred during face matching."
Http500 == "unhandled exception"

Idle ==
  [pc |-> "idle", op |-> "none", user |-> <<>>, name |-> <<>>, img |-> BadImg,
   listed |-> {}, todo |-> {}, log |-> <<>>, wstamp |-> 0, old |-> NoFile,
   env |-> FALSE,
   idx |-> EmptyDir, stamp |-> 0, need |-> 0,
   dfs |-> [kind |-> "none", top |-> <<>>], resp |-> "", username |-> <<>>]

\* A request is handed to an idle thread; the threads are interchangeable, so
\* it is the first idle one.
Free(t) == th[t].pc = "idle" /\ \A u \in 1..(t - 1) : th[u].pc # "idle"

Max(a, b) == IF a >= b THEN a ELSE b

\* ------------------------------------------------------------ register
\* Lines 221-251: the checks made before the store is touched.  "" means
\* that the request goes on to the try block of line 254.
\* RegisterCheck without the test of line 250.
RegisterCheckNoFaceTest(u, img) ==
  IF img = MissingImg \/ u = <<>> THEN {MissingData}
  ELSE IF Sanitize(u) = <<>> THEN {InvalidUsername}
  ELSE IF ~Decodable(img) THEN {InvalidImage}
  ELSE {Http500, ""}

\* The detector of line 249 is called outside every try block: when it raises,
\* the exception leaves the handler.
RegisterCheck(u, img) ==
  IF img = MissingImg \/ u = <<>> THEN {MissingData}
  ELSE IF Sanitize(u) = <<>> THEN {InvalidUsername}
  ELSE IF ~Decodable(img) THEN {InvalidImage}
  ELSE {Http500} \cup (IF Detector(img) = 0 THEN {NoFaceReg} ELSE {""})

\* A thread accepts a register request and runs lines 221-251.
RegStart(t) ==
  /\ Free(t)
  /\ nregs < MaxRegs
  /\ \E u \in Usernames, img \in ImageInputs :
     \E r \in RegisterCheck(u, img) :
       th' = [th EXCEPT ![t] =
                IF r = ""
                THEN [Idle EXCEPT !.pc = "write", !.op = "register",
                                  !.user = u, !.name = Sanitize(u),
                                  !.img = img]
                ELSE [Idle EXCEPT !.pc = "done", !.op = "register",
                                  !.user = u, !.img = img, !.resp = r]]
  /\ nregs' = nregs + 1
  /\ UNCHANGED <<images, cache, clock, acked>>
  /\ UNCHANGED vf

\* History: what the path held before it was written.
OldFrame(f) == IF f \in DOMAIN images THEN images[f] ELSE NoFile

\* RegWrite with a write that leaves the new file alone in the directory.
RegWriteReplacing(t) ==
  /\ th[t].pc = "write"
  /\ images' = [f \in {FileName(th[t].name)} |-> th[t].img]
  /\ clock' = clock + 1
  /\ th' = [th EXCEPT ![t].pc = "list", ![t].wstamp = clock + 1,
                      ![t].log = Append(@, "imwrite")]
  /\ UNCHANGED <<cache, acked, nregs>>
  /\ UNCHANGED vf

\* Line 255: cv2.imwrite(filepath, frame).  It either stores the frame under
\* the file name (creating or overwriting it) or returns False without
\* having stored anything; the return value is not looked at.
RegWrite(t) ==
  /\ th[t].pc = "write"
  /\ \E stored \in BOOLEAN :
       IF stored
       THEN /\ images' = [f \in DOMAIN images \cup {FileName(th[t].name)} |->
                            IF f = FileName(th[t].name) THEN th[t].img
                            ELSE images[f]]
            /\ clock' = clock + 1
            /\ th' = [th EXCEPT ![t].pc = "list", ![t].wstamp = clock + 1,
                                ![t].old = OldFrame(FileName(th[t].name)),
                                ![t].log = Append(@, "imwrite")]
       ELSE /\ UNCHANGED <<images, clock>>
            /\ th' = [th EXCEPT ![t].pc = "list", ![t].env = TRUE,
                                ![t].log = Append(@, "imwrite")]
  /\ UNCHANGED <<cache, acked, nregs>>
  /\ UNCHANGED vf

\* Line 258: pkl_files = [f for f in os.listdir(DB_PATH) if f.endswith(".pkl")]
RegList(t) ==
  /\ th[t].pc = "list"
  /\ th' = [th EXCEPT ![t].pc = "del", ![t].listed = DOMAIN cache,
                      ![t].todo = DOMAIN cache,
                      ![t].log = Append(@, "listdir")]
  /\ UNCHANGED <<images, cache, clock, acked, nregs>>
  /\ UNCHANGED vf

\* Lines 259-260: one iteration of the loop, os.remove of a listed file.
\* A file that is no longer there raises FileNotFoundError, which the
\* except clause of line 264 turns into the SaveFailed answer.
RegRemove(t) ==
  /\ th[t].pc = "del"
  /\ \E f \in th[t].todo :
       IF f \in DOMAIN cache
       THEN /\ cache' = [g \in DOMAIN cache \ {f} |-> cache[g]]
            /\ th' = [th EXCEPT ![t].todo = @ \ {f},
                                ![t].log = Append(@, "remove")]
       ELSE /\ cache' = cache
            /\ th' = [th EXCEPT ![t].pc = "done", ![t].resp = SaveFailed]
  /\ UNCHANGED <<images, clock, acked, nregs>>
  /\ UNCHANGED vf

\* RegSuccess with the return of line 263 inside the loop of line 259.
RegSuccessEarly(t) ==
  /\ th[t].pc = "del"
  /\ th' = [th EXCEPT ![t].pc = "done", ![t].resp = RegOk,
                      ![t].log = Append(@, "success")]
  /\ acked' = Max(acked, th[t].wstamp)
  /\ UNCHANGED <<images, cache, clock, nregs>>
  /\ UNCHANGED vf

\* Lines 262-263: the loop is over, the success response is produced.
RegSuccess(t) ==
  /\ th[t].pc = "del"
  /\ th[t].todo = {}
  /\ th' = [th EXCEPT ![t].pc = "done", ![t].resp = RegOk,
                      ![t].log = Append(@, "success")]
  /\ acked' = Max(acked, th[t].wstamp)
  /\ UNCHANGED <<images, cache, clock, nregs>>
  /\ UNCHANGED vf

\* Lines 264-266: imwrite, os.listdir or os.remove raises for a reason of the
\* file system (permissions, disk); the call that raised has had no effect.
RegIOFault(t) ==
  /\ \/ th[t].pc \in {"write", "list"}
     \/ th[t].pc = "del" /\ th[t].todo # {}
  /\ th' = [th EXCEPT ![t].pc = "done", ![t].resp = SaveFailed,
                      ![t].env = TRUE]
  /\ UNCHANGED <<images, cache, clock, acked, nregs>>
  /\ UNCHANGED vf

\* --------------------------------------------------------------- login
\* The candidates of a query frame in an index: the reference images whose
\* face is the face of the query.
Candidates(idx, frame) == {f \in DOMAIN idx : idx[f] = frame}

\* What DeepFace.find may hand back for a query against an index: it raises,
\* it returns an empty list, a list whose first frame is empty, a list whose
\* first frame has the candidates as rows (any of the equally near ones on
\* top), or an object the result handling of lines 299-307 cannot use.
DeepFaceFind(idx, frame) ==
  {[kind |-> k, top |-> <<>>] : k \in {"raise", "unusable"}}
    \cup (IF Candidates(idx, frame) = {}
          THEN {[kind |-> k, top |-> <<>>] : k \in {"nolist", "noframe"}}
          ELSE {[kind |-> "rows", top |-> f] : f \in Candidates(idx, frame)})

\* Line 307: os.path.basename(identity_path).split('.')[0]
RECURSIVE Stem(_)
Stem(f) ==
  IF f = <<>> \/ Head(f) = "." THEN <<>> ELSE <<Head(f)>> \o Stem(Tail(f))

\* LoginResponse without the except clause of lines 312-314.
LoginResponseNoExcept(dfs) ==
  IF dfs.kind \in {"raise", "unusable"} THEN Http500
  ELSE IF dfs.kind \in {"nolist", "noframe"} THEN NotRecognized
  ELSE LoginOk

\* LoginResponse without the dfs[0].empty test of line 299: iloc[0] raises on
\* the empty frame.
LoginResponseNoEmptyTest(dfs) ==
  IF dfs.kind \in {"raise", "unusable", "noframe"} THEN MatchError
  ELSE IF dfs.kind = "nolist" THEN NotRecognized
  ELSE LoginOk

\* Lines 299-314: the response for what DeepFace.find handed back.
LoginResponse(dfs) ==
  IF dfs.kind \in {"raise", "unusable"} THEN MatchError
  ELSE IF dfs.kind \in {"nolist", "noframe"} THEN NotRecognized
  ELSE LoginOk

\* A thread accepts a login request and runs lines 271-286.
LoginStart(t) ==
  /\ Free(t)
  /\ \E img \in ImageInputs :
       th' = [th EXCEPT ![t] =
                IF img = MissingImg
                THEN [Idle EXCEPT !.pc = "done", !.op = "login", !.img = img,
                                  !.resp = MissingImage]
                ELSE IF ~Decodable(img)
                THEN [Idle EXCEPT !.pc = "done", !.op = "login", !.img = img,
                                  !.resp = InvalidImage]
                ELSE [Idle EXCEPT !.pc = "find", !.op = "login", !.img = img,
                                  !.need = acked]]
  /\ UNCHANGED <<images, cache, clock, acked, nregs>>
  /\ UNCHANGED vf

ThePkl == CHOOSE f \in PklFiles : TRUE

\* DeepFace.find, first part: the pickled index exists and is loaded as is.
MatcherLoad(t) ==
  /\ th[t].pc = "find"
  /\ ThePkl \in DOMAIN cache
  /\ th' = [th EXCEPT ![t].pc = "match", ![t].idx = cache[ThePkl].idx,
                      ![t].stamp = cache[ThePkl].stamp]
  /\ UNCHANGED <<images, cache, clock, acked, nregs>>
  /\ UNCHANGED vf

\* DeepFace.find, first part: no pickled index, the directory is listed and
\* the images found are represented.
MatcherScan(t) ==
  /\ th[t].pc = "find"
  /\ ThePkl \notin DOMAIN cache
  /\ th' = [th EXCEPT ![t].pc = "store", ![t].idx = images,
                      ![t].stamp = clock]
  /\ UNCHANGED <<images, cache, clock, acked, nregs>>
  /\ UNCHANGED vf

\* MatcherStore moving the represented images into the pickle.
MatcherStoreMoving(t) ==
  /\ th[t].pc = "store"
  /\ cache' = [f \in DOMAIN cache \cup {ThePkl} |->
                 IF f = ThePkl THEN [idx |-> th[t].idx, stamp |-> th[t].stamp]
                 ELSE cache[f]]
  /\ images' = EmptyDir
  /\ th' = [th EXCEPT ![t].pc = "match"]
  /\ UNCHANGED <<clock, acked, nregs>>
  /\ UNCHANGED vf

\* DeepFace.find, second part: the representations are pickled into DB_PATH.
MatcherStore(t) ==
  /\ th[t].pc = "store"
  /\ cache' = [f \in DOMAIN cache \cup {ThePkl} |->
                 IF f = ThePkl THEN [idx |-> th[t].idx, stamp |-> th[t].stamp]
                 ELSE cache[f]]
  /\ th' = [th EXCEPT ![t].pc = "match"]
  /\ UNCHANGED <<images, clock, acked, nregs>>
  /\ UNCHANGED vf

\* DeepFace.find returns (or raises) and lines 299-314 answer.
LoginMatch(t) ==
  /\ th[t].pc = "match"
  /\ \E dfs \in DeepFaceFind(th[t].idx, th[t].img) :
       th' = [th EXCEPT ![t] =
                [Idle EXCEPT !.pc = "done", !.op = "login",
                             !.img = th[t].img, !.dfs = dfs,
                             !.resp = LoginResponse(dfs),
                             !.username = IF LoginResponse(dfs) = LoginOk
                                          THEN Stem(dfs.top) ELSE <<>>]]
  /\ UNCHANGED <<images, cache, clock, acked, nregs>>
  /\ UNCHANGED vf

\* -------------------------------------------------------------- verify
CHALLENGES == {"Blink", "Smile", "Look Left", "Look Right"}

\* The challenge field of a request: an issued label, no label, or a label
\* outside the vocabulary (one of them an issued label in another case).
ChallengeInputs == CHALLENGES \cup {"", "Wink", "blink"}

\* Landmark points are <<x, y>> pairs of integer pixel coordinates.
Abs(x) == IF x < 0 THEN 0 - x ELSE x

\* np.linalg.norm of the difference of two points; the contours below keep
\* the measured segments parallel to an axis, so the root is an integer.
Norm(p, q) ==
  LET d2 == (p[1] - q[1]) * (p[1] - q[1]) + (p[2] - q[2]) * (p[2] - q[2])
  IN  CHOOSE r \in 0..d2 : r * r = d2

\* Lines 43-49.  The ratio is kept as a fraction n/d with d > 0.
get_eye_aspect_ratio(eye) ==
  LET A == Norm(eye[2], eye[6])
      B == Norm(eye[3], eye[5])
      C == Norm(eye[1], eye[4])
  IN  IF C = 0 THEN [n |-> 0, d |-> 1] ELSE [n |-> A + B, d |-> 2 * C]

\* Lines 52-57: the index of the largest rectangle (np.argmax takes the first
\* of equal ones), 0 for None.  A rectangle is given by its area.
largest_rect(rects) ==
  IF rects = <<>> THEN 0
  ELSE CHOOSE i \in 1..Len(rects) :
         /\ \A j \in 1..Len(rects) : rects[j] <= rects[i]
         /\ \A j \in 1..(i - 1) : rects[j] < rects[i]

\* An eye contour of width w whose lids are a and b apart.
Eye(w, a, b) == <<<<0, 0>>, <<1, a>>, <<2, b>>, <<w, 0>>, <<2, 0>>, <<1, 0>>>>
EyeShapes == {Eye(0, 1, 1), Eye(5, 0, 0), Eye(5, 1, 1), Eye(3, 1, 1)}

\* x coordinates of the nose tip and of the two jaw points: the horizontal
\* distances are 0, 9, 11 on the left and 0, 5, 20 on the right, which gives
\* the ratios 0.45, 0.55, 1.8 and 2.2.
NoseXs == {20}
LeftJawXs == {9, 11, 20}
RightJawXs == {20, 25, 40}

\* What the landmark predictor hands back: 68 points of which the model
\* keeps the ones verify reads, or an object whose part() raises (bad).
LandmarkSets ==
  {[bad |-> FALSE, nose |-> n, lj |-> l, rj |-> r, le |-> e1, re |-> e2] :
     n \in NoseXs, l \in LeftJawXs, r \in RightJawXs,
     e1 \in EyeShapes, e2 \in EyeShapes}
  \cup {[bad |-> TRUE, nose |-> 20, lj |-> 20, rj |-> 20,
         le |-> Eye(0, 1, 1), re |-> Eye(0, 1, 1)]}

\* What the detector hands back: it raises, or a sequence of rectangles.
DetectorResults(frame) ==
  {[raise |-> TRUE, rects |-> <<>>]}
    \cup {[raise |-> FALSE, rects |-> r] :
            r \in IF Detector(frame) = 0 THEN {<<>>} ELSE {<<4>>, <<4, 9>>}}

\* What DeepFace.analyze hands back: it raises, a dict, a list of dicts, or
\* something else; a dict without the key has the label "".
EmotionLabels == {"happy", "Happy", "sad", ""}
ClassifierResults ==
  {[kind |-> "raise", labels |-> <<>>], [kind |-> "other", labels |-> <<>>],
   [kind |-> "list", labels |-> <<>>]}
    \cup {[kind |-> k, labels |-> <<l>>] : k \in {"dict", "list"},
                                          l \in EmotionLabels}
    \cup {[kind |-> "list", labels |-> <<"sad", "happy">>]}

\* str.lower() on the labels of the model
Lower(l) == IF l = "Happy" THEN "happy" ELSE l

\* BlinkSuccess with the threshold included.
BlinkSuccessInclusive(lm) ==
  LET l == get_eye_aspect_ratio(lm.le)
      r == get_eye_aspect_ratio(lm.re)
  IN  5 * (l.n * r.d + r.n * l.d) <= 2 * l.d * r.d

\* Lines 100-105
BlinkSuccess(lm) ==
  LET l == get_eye_aspect_ratio(lm.le)
      r == get_eye_aspect_ratio(lm.re)
  IN  \* (l + r) / 2.0 < 0.20
      5 * (l.n * r.d + r.n * l.d) < 2 * l.d * r.d

\* SmileSuccess without the lower() of line 120.
SmileSuccessCaseSensitive(dfres) ==
  LET dominant == IF dfres.kind = "dict" THEN dfres.labels[1]
                  ELSE IF dfres.kind = "list" /\ Len(dfres.labels) > 0
                  THEN dfres.labels[1]
                  ELSE ""
  IN  dominant # "" /\ dominant = "happy"

\* Lines 113-121
SmileSuccess(dfres) ==
  LET dominant == IF dfres.kind = "dict" THEN dfres.labels[1]
                  ELSE IF dfres.kind = "list" /\ Len(dfres.labels) > 0
                  THEN dfres.labels[1]
                  ELSE ""
  IN  dominant # "" /\ Lower(dominant) = "happy"

\* TurnSuccess with the thresholds included.
TurnSuccessInclusive(challenge, lm) ==
  LET dist_nose_to_left_jaw == Abs(lm.nose - lm.lj)
      dist_nose_to_right_jaw == Abs(lm.nose - lm.rj)
  IN  IF dist_nose_to_right_jaw = 0 \/ dist_nose_to_left_jaw = 0 THEN FALSE
      ELSE IF challenge = "Look Left"
      THEN 100 * dist_nose_to_left_jaw <= 55 * dist_nose_to_right_jaw
      ELSE 10 * dist_nose_to_left_jaw >= 18 * dist_nose_to_right_jaw

\* Lines 133-160
TurnSuccess(challenge, lm) ==
  LET dist_nose_to_left_jaw == Abs(lm.nose - lm.lj)
      dist_nose_to_right_jaw == Abs(lm.nose - lm.rj)
  IN  IF dist_nose_to_right_jaw = 0 \/ dist_nose_to_left_jaw = 0 THEN FALSE
      ELSE IF challenge = "Look Left"
      THEN \* turn_ratio < 0.55
           100 * dist_nose_to_left_jaw < 55 * dist_nose_to_right_jaw
      ELSE \* turn_ratio > 1.8
           10 * dist_nose_to_left_jaw > 18 * dist_nose_to_right_jaw

VMissing == "Missing data"
VNoFace == "No face detected"
VDone == "verified"

NoLandmarks == CHOOSE l \in LandmarkSets : l.bad
NotCalled == [kind |-> "notcalled", labels |-> <<>>]

VIdle ==
  [pc |-> "idle", op |-> "none", challenge |-> "", img |-> BadImg,
   rects |-> <<>>, lm |-> NoLandmarks, dfres |-> NotCalled, resp |-> "",
   success |-> FALSE, raised |-> {}, emotion |-> "", box |-> 0]

\* A verify request arrives; lines 71-88.
VerifyStart ==
  /\ vf.pc = "idle"
  /\ \E c \in ChallengeInputs, img \in ImageInputs :
       LET v == [VIdle EXCEPT !.op = "verify", !.challenge = c, !.img = img]
       IN  vf' = IF img = MissingImg \/ c = ""
                 THEN [v EXCEPT !.pc = "done", !.resp = VMissing]
                 ELSE IF ~Decodable(img)
                 THEN [v EXCEPT !.pc = "done", !.resp = InvalidImage]
                 ELSE [v EXCEPT !.pc = "detect"]
  /\ UNCHANGED <<images, cache, clock, acked, nregs, th>>

\* Lines 90-93.  The detector is called outside every try block: when it
\* raises, the exception leaves the handler.
VerifyDetect ==
  /\ vf.pc = "detect"
  /\ \E det \in DetectorResults(vf.img) :
       vf' = IF det.raise
             THEN [vf EXCEPT !.pc = "done", !.resp = Http500,
                             !.raised = {"detector"}]
             ELSE IF largest_rect(det.rects) = 0
             THEN [vf EXCEPT !.pc = "done", !.resp = VNoFace]
             ELSE [vf EXCEPT !.pc = "predict", !.rects = det.rects]
  /\ UNCHANGED <<images, cache, clock, acked, nregs, th>>

\* Lines 95-96.  The predictor is called outside every try block as well.
VerifyPredict ==
  /\ vf.pc = "predict"
  /\ \/ vf' = [vf EXCEPT !.pc = "done", !.resp = Http500,
                         !.raised = {"predictor"}]
     \/ \E l \in LandmarkSets : vf' = [vf EXCEPT !.pc = "try", !.lm = l]
  /\ UNCHANGED <<images, cache, clock, acked, nregs, th>>

\* Evaluate with the success flag of line 96 initialised to True.
EvaluateDefaultTrue(challenge, lm, dfres) ==
  IF challenge = "Blink"
  THEN IF lm.bad THEN [success |-> FALSE, raised |-> {"landmarks"}]
       ELSE [success |-> BlinkSuccess(lm), raised |-> {}]
  ELSE IF challenge = "Smile"
  THEN IF dfres.kind = "raise"
       THEN [success |-> FALSE, raised |-> {"classifier"}]
       ELSE [success |-> SmileSuccess(dfres), raised |-> {}]
  ELSE IF challenge \in {"Look Left", "Look Right"}
  THEN IF lm.bad THEN [success |-> FALSE, raised |-> {"landmarks"}]
       ELSE [success |-> TurnSuccess(challenge, lm), raised |-> {}]
  ELSE [success |-> TRUE, raised |-> {}]

\* Lines 98-165: the try block.  The result is the success flag and the set
\* of collaborators that raised inside it; dfres is what DeepFace.analyze
\* does if it is called.
Evaluate(challenge, lm, dfres) ==
  IF challenge = "Blink"
  THEN IF lm.bad THEN [success |-> FALSE, raised |-> {"landmarks"}]
       ELSE [success |-> BlinkSuccess(lm), raised |-> {}]
  ELSE IF challenge = "Smile"
  THEN IF dfres.kind = "raise"
       THEN [success |-> FALSE, raised |-> {"classifier"}]
       ELSE [success |-> SmileSuccess(dfres), raised |-> {}]
  ELSE IF challenge \in {"Look Left", "Look Right"}
  THEN IF lm.bad THEN [success |-> FALSE, raised |-> {"landmarks"}]
       ELSE [success |-> TurnSuccess(challenge, lm), raised |-> {}]
  ELSE [success |-> FALSE, raised |-> {}]

\* Lines 98-172: the challenge is evaluated and the response produced.
VerifyEvaluate ==
  /\ vf.pc = "try"
  /\ \E dfres \in IF vf.challenge = "Smile" THEN ClassifierResults
                  ELSE {NotCalled} :
       LET e == Evaluate(vf.challenge, vf.lm, dfres) IN
       vf' = [vf EXCEPT !.pc = "done", !.dfres = dfres, !.resp = VDone,
                        !.success = e.success, !.raised = e.raised]
  /\ UNCHANGED <<images, cache, clock, acked, nregs, th>>

\* The response of verify, analyze_emotion or get_challenge has been sent.
VerifyReturn ==
  /\ vf.pc = "done"
  /\ vf' = VIdle
  /\ UNCHANGED <<images, cache, clock, acked, nregs, th>>

\* ------------------------------------------- analyze_emotion, get_challenge
ANoImage == "No image data"
ADone == "analyzed"
NoEmotion == "N/A"

\* str.capitalize() on the labels of the model
Capitalize(l) == IF l = "happy" THEN "Happy" ELSE IF l = "sad" THEN "Sad" ELSE l

\* Lines 203-210: the emotion reported for what DeepFace.analyze handed back.
Emotion(dfres) ==
  LET dominant == IF dfres.kind = "dict" THEN dfres.labels[1]
                  ELSE IF dfres.kind = "list" /\ Len(dfres.labels) > 0
                  THEN dfres.labels[1]
                  ELSE ""
  IN  IF dominant # "" THEN Capitalize(dominant) ELSE NoEmotion

\* An analyze_emotion request arrives; lines 176-189.
AnalyzeStart ==
  /\ vf.pc = "idle"
  /\ \E img \in ImageInputs :
       LET v == [VIdle EXCEPT !.op = "analyze_emotion", !.img = img]
       IN  vf' = IF img = MissingImg
                 THEN [v EXCEPT !.pc = "done", !.resp = ANoImage]
                 ELSE IF ~Decodable(img)
                 THEN [v EXCEPT !.pc = "done", !.resp = InvalidImage]
                 ELSE [v EXCEPT !.pc = "adetect"]
  /\ UNCHANGED <<images, cache, clock, acked, nregs, th>>

\* Lines 191-196.  The detector is called outside every try block; box is
\* the rectangle chosen (0: the empty box).
AnalyzeDetect ==
  /\ vf.pc = "adetect"
  /\ \E det \in DetectorResults(vf.img) :
       vf' = IF det.raise
             THEN [vf EXCEPT !.pc = "done", !.resp = Http500,
                             !.raised = {"detector"}]
             ELSE IF largest_rect(det.rects) = 0
             THEN [vf EXCEPT !.pc = "done", !.resp = ADone,
                             !.emotion = NoEmotion]
             ELSE [vf EXCEPT !.pc = "aclassify", !.rects = det.rects,
                             !.box = largest_rect(det.rects)]
  /\ UNCHANGED <<images, cache, clock, acked, nregs, th>>

\* Lines 198-214: a classifier fault leaves the emotion at "N/A".
AnalyzeClassify ==
  /\ vf.pc = "aclassify"
  /\ \E dfres \in ClassifierResults :
       vf' = [vf EXCEPT !.pc = "done", !.dfres = dfres, !.resp = ADone,
                        !.emotion = IF dfres.kind = "raise" THEN NoEmotion
                                    ELSE Emotion(dfres),
                        !.raised = IF dfres.kind = "raise" THEN {"classifier"}
                                   ELSE {}]
  /\ UNCHANGED <<images, cache, clock, acked, nregs, th>>

\* Lines 63-67: get_challenge answers with one of CHALLENGES.
GetChallenge ==
  /\ vf.pc = "idle"
  /\ \E c \in CHALLENGES :
       vf' = [VIdle EXCEPT !.pc = "done", !.op = "get_challenge",
                           !.challenge = c]
  /\ UNCHANGED <<images, cache, clock, acked, nregs, th>>

\* The response has been sent; the thread is ready for another request.
Return(t) ==
  /\ th[t].pc = "done"
  /\ th' = [th EXCEPT ![t] = Idle]
  /\ UNCHANGED <<images, cache, clock, acked, nregs>>
  /\ UNCHANGED vf

\* ------------------------------------------------------- specifications
Init ==
  /\ images = EmptyDir
  /\ cache = EmptyDir
  /\ clock = 0
  /\ acked = 0
  /\ nregs = 0
  /\ th = [t \in Threads |-> Idle]
  /\ vf = VIdle

Step(t) ==
    \/ RegStart(t)
    \/ RegWrite(t)
    \/ RegList(t)
    \/ RegRemove(t)
    \/ RegSuccess(t)
    \/ RegIOFault(t)
    \/ LoginStart(t)
    \/ MatcherLoad(t)
    \/ MatcherScan(t)
    \/ MatcherStore(t)
    \/ LoginMatch(t)
    \/ Return(t)

\* Requests are handled by concurrently running threads.
Next == \E t \in Threads : Step(t)

Spec == Init /\ [][Next]_vars

\* Non-overlapping calls: a request is accepted only when no other request
\* is being handled, and runs to its response.
Quiet(t) == \A u \in Threads \ {t} : th[u].pc = "idle"

SeqNext ==
  \E t \in Threads :
    \/ Quiet(t) /\ RegStart(t)
    \/ RegWrite(t)
    \/ RegList(t)
    \/ RegRemove(t)
    \/ RegSuccess(t)
    \/ RegIOFault(t)
    \/ Quiet(t) /\ LoginStart(t)
    \/ MatcherLoad(t)
    \/ MatcherScan(t)
    \/ MatcherStore(t)
    \/ LoginMatch(t)
    \/ Return(t)

SeqSpec == Init /\ [][SeqNext]_vars

\* The liveness verifier on its own: it shares no state with the store.
VerifyNext ==
  \/ VerifyStart
  \/ VerifyDetect
  \/ VerifyPredict
  \/ VerifyEvaluate
  \/ VerifyReturn

VerifySpec == Init /\ [][VerifyNext]_vars

\* All the handlers of the server, called one after the other.
StoreIdle == \A t \in Threads : th[t].pc = "idle"

ServerNext ==
  \/ \E t \in Threads :
       \/ vf.pc = "idle" /\ Quiet(t) /\ RegStart(t)
       \/ RegWrite(t)
       \/ RegList(t)
       \/ RegRemove(t)
       \/ RegSuccess(t)
       \/ RegIOFault(t)
       \/ vf.pc = "idle" /\ Quiet(t) /\ LoginStart(t)
       \/ MatcherLoad(t)
       \/ MatcherScan(t)
       \/ MatcherStore(t)
       \/ LoginMatch(t)
       \/ Return(t)
  \/ StoreIdle /\ VerifyStart
  \/ VerifyDetect
  \/ VerifyPredict
  \/ VerifyEvaluate
  \/ StoreIdle /\ AnalyzeStart
  \/ AnalyzeDetect
  \/ AnalyzeClassify
  \/ StoreIdle /\ GetChallenge
  \/ VerifyReturn

ServerSpec == Init /\ [][ServerNext]_vars

\* ------------------------------------------------------------ properties
Registers == {t \in Threads : th[t].op = "register"}
Logins == {t \in Threads : th[t].op = "login"}

\* C1: a login that starts after a register has answered success never
\* matches against an index whose directory listing was taken before that
\* register wrote its reference image.
C1_LoginSeesAckedRegister ==
  \A t \in Logins : th[t].pc = "match" => th[t].stamp >= th[t].need

\* C2: with non-overlapping calls, what the matcher hands back for the index
\* it uses is what it would hand back for an index rebuilt from the
\* directory.
C2_CachedEqualsFresh ==
  \A t \in Logins :
    th[t].pc = "match" =>
      DeepFaceFind(th[t].idx, th[t].img) = DeepFaceFind(images, th[t].img)

\* C3: in a register call the cache files are deleted only after the image
\* write, and the success response comes after the write and after the
\* deletion of every cache file the call listed.
Removes(log) == {i \in 1..Len(log) : log[i] = "remove"}

C3_WriteThenPurgeThenSuccess ==
  \A t \in Registers :
    /\ \A i \in 1..Len(th[t].log) :
         th[t].log[i] \in {"listdir", "remove", "success"} =>
           i > 1 /\ th[t].log[1] = "imwrite"
    /\ th[t].resp = RegOk =>
         /\ th[t].todo = {}
         /\ Cardinality(Removes(th[t].log)) = Cardinality(th[t].listed)
         /\ th[t].log[Len(th[t].log)] = "success"
         /\ \A i \in 1..(Len(th[t].log) - 1) : th[t].log[i] # "success"

C3_Witness ==
  \E t \in Registers :
    /\ th[t].resp = RegOk
    /\ th[t].listed # {}
    /\ th[t].wstamp > 0

\* C4: no two registers are at once between their image write and the end of
\* their cache deletion, and no matcher has listed the directory and is
\* building its cache while a register is in that section.
InSection(t) == th[t].op = "register" /\ th[t].pc \in {"list", "del"}

C4_WritersSerialized ==
  /\ \A t, u \in Threads : InSection(t) /\ InSection(u) => t = u
  /\ \A t, u \in Threads : InSection(t) => th[u].pc # "store"

\* C5: a register call with a valid username and a face-bearing image that
\* meets no fault of the file system answers success, whatever other register
\* calls do meanwhile.
C5_RegistersIndependent ==
  \A t \in Registers :
    (/\ th[t].pc = "done"
     /\ th[t].name # <<>>
     /\ th[t].resp # Http500
     /\ \A u \in Registers : ~th[u].env)
      => th[t].resp = RegOk

\* C6: when a collaborator raises while verify evaluates a decoded image, the
\* response is success=false and nothing leaves the handler.
C6_VerifyFailsClosed ==
  (vf.pc = "done" /\ vf.raised # {}) => (vf.resp = VDone /\ ~vf.success)

\* The username is empty once the characters other than alphanumerics, blanks
\* and underscores are removed and trailing blanks are trimmed.
SanitizedEmpty(u) ==
  \A i \in 1..Len(u) : u[i] \notin AlnumChars /\ u[i] # "_"

\* C7: a register call on an image in which the detector finds no face
\* answers 'no face detected' in the step that accepts it, and that step
\* changes neither the reference images nor the cache files.
C7_NoFaceNoEffect ==
  [][\A t \in Threads :
       (/\ th[t].pc = "idle"
        /\ th'[t].op = "register"
        /\ th'[t].img = NoFaceImg
        /\ ~SanitizedEmpty(th'[t].user)
        /\ th'[t].resp # Http500)
         => /\ th'[t].pc = "done"
            /\ th'[t].resp = NoFaceReg
            /\ images' = images
            /\ cache' = cache]_vars

C7_Witness ==
  /\ DOMAIN cache # {}
  /\ DOMAIN images # {}
  /\ \E t \in Registers : th[t].resp = NoFaceReg /\ th[t].img = NoFaceImg

\* C8 as stated: every register call whose sanitized username is empty
\* answers 'Invalid username' and has written and deleted nothing.
C8_EmptyNameIsInvalid ==
  \A t \in Registers :
    SanitizedEmpty(th[t].user) =>
      /\ th[t].pc = "done"
      /\ th[t].resp = InvalidUsername
      /\ th[t].log = <<>>

\* C8 amended: such a call answers 'Invalid username' when it carries an
\* image and a non-empty username, 'Missing image or username' otherwise, in
\* the step that accepts it, and that step changes no file of the store.
C8_EmptyNameRejected ==
  [][\A t \in Threads :
       (/\ th[t].pc = "idle"
        /\ th'[t].op = "register"
        /\ SanitizedEmpty(th'[t].user))
         => /\ th'[t].pc = "done"
            /\ th'[t].resp = IF th'[t].user = <<>> \/ th'[t].img = MissingImg
                             THEN MissingData ELSE InvalidUsername
            /\ th'[t].log = <<>>
            /\ images' = images
            /\ cache' = cache]_vars

C8_Witness ==
  /\ DOMAIN cache # {}
  /\ DOMAIN images # {}
  /\ \E t \in Registers :
       /\ th[t].resp = InvalidUsername
       /\ th[t].user = <<".", " ">>
       /\ th[t].img \in 1..NumFaces

\* C9: a login with a decodable image answers 'not recognized' when the
\* matcher hands back no candidate, the matching error when the matcher or
\* the result handling raises, and otherwise success with the name under
\* which the top candidate is stored; nothing leaves the handler.
C9_LoginOutcomes ==
  \A t \in Logins :
    (th[t].pc = "done" /\ Decodable(th[t].img)) =>
      /\ th[t].resp \in {NotRecognized, MatchError, LoginOk}
      /\ th[t].dfs.kind \in {"nolist", "noframe"} <=> th[t].resp = NotRecognized
      /\ th[t].dfs.kind \in {"raise", "unusable"} <=> th[t].resp = MatchError
      /\ th[t].dfs.kind = "rows" <=>
           /\ th[t].resp = LoginOk
           /\ FileName(th[t].username) = th[t].dfs.top

C9_Witness ==
  /\ Cardinality(DOMAIN images) > 1
  /\ \E t \in Logins :
       /\ th[t].resp = LoginOk
       /\ th[t].dfs.top \in DOMAIN images
       /\ th[t].username # <<>>

\* C10 as stated: a login with a decodable image that is answered while the
\* store holds no reference image answers 'not recognized'.
C10_EmptyStoreNotRecognized ==
  \A t \in Logins :
    (th[t].pc = "done" /\ Decodable(th[t].img) /\ DOMAIN images = {}) =>
      th[t].resp = NotRecognized

\* C10 amended: such a login never answers success; it answers 'not
\* recognized' unless the matcher or the result handling raised, and the
\* matching error then.
C10_EmptyStoreNoSuccess ==
  \A t \in Logins :
    (th[t].pc = "done" /\ Decodable(th[t].img) /\ DOMAIN images = {}) =>
      /\ th[t].resp \in {NotRecognized, MatchError}
      /\ th[t].dfs.kind \notin {"raise", "unusable"} =>
           th[t].resp = NotRecognized

C10_Witness ==
  /\ DOMAIN images = {}
  /\ nregs > 0
  /\ \E t \in Logins :
       /\ th[t].resp = NotRecognized
       /\ th[t].img \in 1..NumFaces
       /\ th[t].dfs.kind = "noframe"

\* C11: when a register for username u has answered success having written
\* its reference image, a login that answers success with that image as its
\* top-ranked match reports the sanitized form of u as the username.
C11_UsernameRoundTrip ==
  \A r \in Registers, l \in Logins :
    (/\ th[r].resp = RegOk
     /\ th[r].wstamp > 0
     /\ th[l].pc = "done"
     /\ th[l].dfs.kind = "rows"
     /\ th[l].dfs.top = FileName(th[r].name))
      => /\ th[l].resp = LoginOk
         /\ th[l].username = Sanitize(th[r].user)
         /\ th[r].name = Sanitize(th[r].user)

C11_Witness ==
  \E r \in Registers, l \in Logins :
    /\ th[r].resp = RegOk
    /\ th[r].wstamp > 0
    /\ th[r].user = <<".", "a">>
    /\ th[l].resp = LoginOk
    /\ th[l].dfs.top = FileName(th[r].name)
    /\ th[l].username = <<"a">>

\* C12: the store never holds two reference images for one username; a step
\* that creates or changes a reference image is the image write of a register
\* call and touches only the file of that call's sanitized username; and no
\* step removes a reference image.
C12_OneRecordPerName ==
  [][/\ \A f, g \in DOMAIN images' : Stem(f) = Stem(g) => f = g
     /\ \A f \in DOMAIN images' :
          (f \notin DOMAIN images \/ images'[f] # images[f]) =>
            \E t \in Registers :
              /\ th[t].pc = "write"
              /\ th'[t].pc = "list"
              /\ f = FileName(Sanitize(th[t].user))
     /\ \A f \in DOMAIN images :
          /\ f \in DOMAIN images'
          /\ (\A t \in Registers :
                 th[t].pc = "write" /\ th'[t].pc = "list" =>
                   f # FileName(Sanitize(th[t].user)))
               => images'[f] = images[f]]_vars

C12_Witness ==
  /\ Cardinality(DOMAIN images) = 2
  /\ \E t \in Registers :
       /\ th[t].resp = RegOk
       /\ th[t].wstamp = 2
       /\ FileName(Sanitize(th[t].user)) \in DOMAIN images

\* C13: with L and R the horizontal distances from the nose to the left and
\* to the right jaw point, a Look Left verify succeeds iff L, R are not 0 and
\* L/R < 0.55 (11/20), a Look Right verify succeeds iff L, R are not 0 and
\* L/R > 1.8 (9/5), and no landmark set passes both challenges.
LeftDist == Abs(vf.lm.nose - vf.lm.lj)
RightDist == Abs(vf.lm.nose - vf.lm.rj)

C13_TurnThresholds ==
  (vf.pc = "done" /\ vf.resp = VDone /\ ~vf.lm.bad) =>
    /\ vf.challenge = "Look Left" =>
         (vf.success <=>
            LeftDist # 0 /\ RightDist # 0 /\ 20 * LeftDist < 11 * RightDist)
    /\ vf.challenge = "Look Right" =>
         (vf.success <=>
            LeftDist # 0 /\ RightDist # 0 /\ 5 * LeftDist > 9 * RightDist)
    /\ ~(/\ Evaluate("Look Left", vf.lm, NotCalled).success
         /\ Evaluate("Look Right", vf.lm, NotCalled).success)

C13_Witness ==
  /\ vf.pc = "done"
  /\ vf.resp = VDone
  /\ vf.challenge = "Look Right"
  /\ ~vf.lm.bad
  /\ 5 * LeftDist = 9 * RightDist
  /\ RightDist # 0
  /\ ~vf.success

\* C14: a Blink verify succeeds iff the mean of the two eye aspect ratios is
\* strictly below 0.20 (1/5), an eye of width 0 counting as ratio 0; hence it
\* fails whenever both ratios are at or above 0.20.
LeftEAR == get_eye_aspect_ratio(vf.lm.le)
RightEAR == get_eye_aspect_ratio(vf.lm.re)
EyeWidth(eye) == Norm(eye[1], eye[4])

C14_BlinkThreshold ==
  (vf.pc = "done" /\ vf.resp = VDone /\ vf.challenge = "Blink"
     /\ ~vf.lm.bad) =>
    /\ vf.success <=>
         5 * (LeftEAR.n * RightEAR.d + RightEAR.n * LeftEAR.d)
           < 2 * LeftEAR.d * RightEAR.d
    /\ EyeWidth(vf.lm.le) = 0 => LeftEAR.n = 0
    /\ EyeWidth(vf.lm.re) = 0 => RightEAR.n = 0
    /\ (5 * LeftEAR.n >= LeftEAR.d /\ 5 * RightEAR.n >= RightEAR.d)
         => ~vf.success

C14_Witness ==
  /\ vf.pc = "done"
  /\ vf.resp = VDone
  /\ vf.challenge = "Blink"
  /\ ~vf.lm.bad
  /\ EyeWidth(vf.lm.le) = 0
  /\ 5 * RightEAR.n > RightEAR.d
  /\ vf.success

\* C15: a Smile verify succeeds iff the classifier handed back a result, or a
\* non-empty sequence of results, whose (first) dominant-emotion label is
\* "happy" in any letter case; every other label, an empty or missing label,
\* an empty sequence, another object and a classifier fault give failure.
HappyLabels == {l \in EmotionLabels : l \in {"happy", "Happy"}}

C15_SmileIffHappy ==
  (vf.pc = "done" /\ vf.resp = VDone /\ vf.challenge = "Smile") =>
    /\ vf.dfres \in ClassifierResults
    /\ vf.success <=>
         /\ vf.dfres.kind \in {"dict", "list"}
         /\ vf.dfres.labels # <<>>
         /\ Head(vf.dfres.labels) \in HappyLabels

C15_Witness ==
  /\ vf.pc = "done"
  /\ vf.challenge = "Smile"
  /\ vf.dfres.kind = "list"
  /\ vf.dfres.labels = <<"Happy">>
  /\ vf.success

\* C16: a verify whose challenge label is not one of CHALLENGES, on an image
\* in which a face was detected and for which the predictor handed back
\* landmarks of any kind, answers success=false.
C16_UnknownChallengeFails ==
  (/\ vf.pc = "done"
   /\ vf.challenge \notin CHALLENGES
   /\ vf.rects # <<>>
   /\ "predictor" \notin vf.raised)
    => /\ vf.resp = VDone
       /\ ~vf.success
       /\ vf.raised = {}

C16_Witness ==
  /\ vf.pc = "done"
  /\ vf.challenge = "blink"
  /\ vf.rects # <<>>
  /\ ~vf.lm.bad
  /\ BlinkSuccess(vf.lm)
  /\ ~vf.success

\* C17: a register call that has answered success=false has left the
\* reference images as they were before the call: it has persisted no write,
\* or it has rewritten a file with the frame the file already held.
C17_FailureLeavesStore ==
  \A t \in Registers :
    (th[t].pc = "done" /\ th[t].resp # RegOk) =>
      (th[t].wstamp = 0 \/ th[t].old = th[t].img)

\* C18: a register call that has answered success has persisted its
\* reference image, the file of its sanitized username is in the store, and
\* it has removed every cache file it listed.
C18_SuccessMeansStored ==
  \A t \in Registers :
    th[t].resp = RegOk =>
      /\ th[t].wstamp > 0
      /\ FileName(Sanitize(th[t].user)) \in DOMAIN images
      /\ Cardinality(Removes(th[t].log)) = Cardinality(th[t].listed)

\* C19: no step of a login, verify, analyze_emotion or get_challenge call
\* changes the reference images; verify, analyze_emotion and get_challenge
\* leave the cache files alone too, and a login step can only add one.
LoginStep(t) ==
  th'[t] # th[t] /\ (th[t].op = "login" \/ th'[t].op = "login")

C19_ReadersLeaveImages ==
  [][/\ vf' # vf => (images' = images /\ cache' = cache)
     /\ \A t \in Threads :
          LoginStep(t) =>
            /\ images' = images
            /\ DOMAIN cache \subseteq DOMAIN cache'
            /\ \A f \in DOMAIN cache : cache'[f] = cache[f]]_vars

C19_Witness ==
  /\ DOMAIN images # {}
  /\ DOMAIN cache # {}
  /\ vf.pc = "done"
  /\ vf.op = "analyze_emotion"
  /\ vf.emotion = "Happy"
  /\ StoreIdle

====
